---------------------------- MODULE Spec2Model ----------------------------
(***************************************************************************)
(* The Room view of DiceyDecisions (src/index.js, function Room) together  *)
(* with the remote RoomAPI it talks to.                                    *)
(*                                                                         *)
(* The view is a React 18 component (createRoot, line 6): the state        *)
(* updates a continuation makes after an await are batched into one        *)
(* render, and the effects of that render run with it.  The root renders   *)
(* in StrictMode (line 8): a development build runs the effects of a mount *)
(* twice, a production build once.  An action of this                      *)
(* module is therefore one event-loop task: a click handler up to its      *)
(* first await, the continuation of a request's response, a timer tick,    *)
(* a navigation.  Requests are in flight between the task that sends them, *)
(* the moment the server handles them and the task that receives the       *)
(* response; responses arrive in any order.                                *)
(*                                                                         *)
(* Around the Room view stand the AuthProvider, the routes of App with     *)
(* their PrivateRoute, and the Login, Signup and Home views, of which one  *)
(* is rendered at a time.                                                  *)
(*                                                                         *)
(* Render-only state that no handler reads (shareLink, tiebreakerMethod),  *)
(* the email and password inputs, Home.joinRoom and the list of            *)
(* PastDecisions are left out.  Of the notifications only the validation   *)
(* errors are kept.                                                        *)
(***************************************************************************)
EXTENDS Integers, Sequences, FiniteSets

\* Loads (GET /rooms/code/{code}) that may be in flight at once.
MaxLoads == 2
\* User operations (POST requests) that may be in flight at once.
MaxOps == 1

\* Room codes; a room's _id is identified with its code.  Room 1 is the room
\* in progress; room 2 is a room of somebody else's that was decided long ago.
Codes == {1, 2}
IsLive(c) == c = 1
\* Option ids of room 1; 0 stands for "no option" (null / undefined).
OptionIds == {1, 2}
\* The only option of room 2.
PastOptions == {3}
\* Characters of option texts.
SP == " "
\* The text of each option: option 1 is "P"izza; option 2 was stored with an
\* empty text by a client that does not trim (this view cannot create it).
\* Option 3 is "C"urry.
OptText(o) == IF o = 1 THEN <<"P">> ELSE IF o = 2 THEN <<>> ELSE <<"C">>
\* What the user may type into the option-text input and the room-title input.
Inputs == {<<>>, <<SP, "P", SP>>}
\* The fallback text of triggerTiebreaker (line 405).
Unknown == <<"U">>

\* The account of the user (the data.email that login and signup answer),
\* and the users there are.
Viewer == "u1"
Users == {"u1", "u2"}
\* auth.email: null, the placeholder of line 46, or the account's email.
NoEmail == ""
You == "You"

\* The routes of App (lines 564-568), and those behind PrivateRoute.
Paths == {"/login", "/signup", "/", "/past-decisions", "/room"}
Protected == {"/", "/past-decisions", "/room"}
\* The forms that send a request, and the route each lives on.
Forms == {"login", "signup", "create"}
AuthForms == {"login", "signup"}
FormPath(k) == IF k = "create" THEN "/" ELSE IF k = "login" THEN "/login" ELSE "/signup"

\* The validation errors (lines 337 and 199); no notification raised.
NoNotice == ""
EnterOptionText == "Enter option text"
TitleRequired == "Room title is required"

\* The user operations of the view that send a request.
Kinds == {"submit", "open", "vote", "close", "tiebreak"}

VARIABLES
  srv,              \* RoomAPI: room 1, [creatorId, phase, final, options, hasVoted]
  mounted,          \* the Room view is mounted
  roomCode,         \* useParams().roomCode
  loading,          \* useState(true)
  room,             \* useState(null): {} is null, {r} a loaded room
  options,          \* useState([]): the ids of the loaded options
  optionText,       \* useState('')
  hasVoted,         \* useState(false)
  selectedOptionId, \* useState(null): 0 is null
  voteCasting,      \* useState(false)
  votingClosing,    \* useState(false)
  tiedOptionIds,    \* useState([])
  tiebreaking,      \* useState(false)
  finalOptionText,  \* useState(null): {} is null, {t} the text t
  timers,           \* code -> number of pending setInterval(loadRoom) timers
  effectTimer,      \* the code of the interval the polling effect's cleanup holds, 0: none
  loads,            \* loadRoom calls in flight, in the order they were issued
  ops,              \* kind -> the user operation of that kind in flight
  voteAcked,        \* history: this view has received the acknowledgement of a vote
  path,             \* the route that is rendered
  token,            \* auth.token is set
  email,            \* auth.email
  authLoading,      \* "login" / "signup" -> useState(false) loading of that view
  creating,         \* Home: useState(false)
  newRoomTitle,     \* Home: useState('')
  forms,            \* form -> its request: "idle", "sent", "orphan" (its view is gone)
  notice            \* the validation error the last step raised

srvVars == <<srv>>
viewVars == <<mounted, roomCode, loading, room, options, optionText, hasVoted,
              selectedOptionId, voteCasting, votingClosing, tiedOptionIds,
              tiebreaking, finalOptionText>>
pollVars == <<timers, effectTimer>>
histVars == <<voteAcked>>
authVars == <<token, email>>
formVars == <<authLoading, creating, newRoomTitle, forms>>
vars == <<srv, mounted, roomCode, loading, room, options, optionText, hasVoted,
          selectedOptionId, voteCasting, votingClosing, tiedOptionIds,
          tiebreaking, finalOptionText, timers, effectTimer, loads, ops, voteAcked,
          path, token, email, authLoading, creating, newRoomTitle, forms, notice>>

\* A step of the Room view or of the server: the rest of the application is
\* left alone and no validation error is raised.
AppStays == UNCHANGED <<path, authVars, formVars>> /\ notice' = NoNotice

-----------------------------------------------------------------------------
(* Pure helpers *)

\* String.prototype.trim on a sequence of characters.
RECURSIVE TrimLeft(_)
TrimLeft(s) == IF s # <<>> /\ Head(s) = SP THEN TrimLeft(Tail(s)) ELSE s
RECURSIVE TrimRight(_)
TrimRight(s) ==
  IF s # <<>> /\ s[Len(s)] = SP THEN TrimRight(SubSeq(s, 1, Len(s) - 1)) ELSE s
Trim(s) == TrimRight(TrimLeft(s))

\* JavaScript truthiness of finalOptionText: null and '' are falsy.
Truthy(t) == t # {} /\ t # {<<>>}

\* s without its i-th element.
RemoveAt(s, i) == SubSeq(s, 1, i - 1) \o SubSeq(s, i + 1, Len(s))

TimerCount == timers[1] + timers[2]

-----------------------------------------------------------------------------
(* RoomAPI *)

\* Room 2 as the server holds it: decided for "C", the viewer never voted.
PastRoom ==
  [creatorId |-> "u2", phase |-> "decided", final |-> CHOOSE o \in PastOptions : TRUE,
   options |-> PastOptions, hasVoted |-> FALSE]

\* The server's record of room c.
Stored(c) == IF IsLive(c) THEN srv ELSE PastRoom

\* GET /rooms/code/{code} -> { room, options[], hasVoted }
RoomData(c) ==
  [room |-> [id |-> c,
             votingOpen |-> Stored(c).phase = "voting",
             finalDecision |-> Stored(c).final,
             creatorId |-> Stored(c).creatorId],
   options |-> Stored(c).options,
   hasVoted |-> Stored(c).hasVoted]

\* The data field of a load that has no response yet, or a failed one.
NoData ==
  [room |-> [id |-> 0, votingOpen |-> FALSE, finalDecision |-> 0, creatorId |-> ""],
   options |-> {},
   hasVoted |-> FALSE]

-----------------------------------------------------------------------------
(* loadRoom and the polling effect *)

\* A loadRoom() call: the request is sent for the roomCode of the closure.
\* awaitedBy is the operation that awaits the call ("none": an effect or a
\* timer called it).  superseded records that the data of a load issued
\* later has been applied since.
NewLoad(code, awaitedBy) ==
  [code |-> code, awaitedBy |-> awaitedBy, status |-> "pending", data |-> NoData,
   superseded |-> FALSE]

\* A faulty variant: the lookup never matches (it compares another field than _id).
ResolveFinalTextNoMatch(d) == IF d.room.finalDecision # 0 THEN {<<>>} ELSE {}

\* Lines 309-314: the final decision's text, resolved in the fetched options.
ResolveFinalText(d) ==
  IF d.room.finalDecision # 0
    THEN IF \E o \in d.options : o = d.room.finalDecision
           THEN {OptText(d.room.finalDecision)}
           ELSE {<<>>}
    ELSE {}

\* A faulty variant: the cleanup clears nothing.
ClearIntervalSkipped(t, et) == t

\* Line 332: the cleanup of the previous run of the polling effect.
ClearInterval(t, et) == IF et # 0 THEN [t EXCEPT ![et] = @ - 1] ELSE t

\* A faulty variant: the effect sets no interval.
PollEffectNoInterval(t, et, rm, code) ==
  [timers |-> ClearInterval(t, et), effectTimer |-> 0]

\* A faulty variant: the effect returns no cleanup: a new interval beside the old one.
PollEffectNoCleanup(t, et, rm, code) ==
  IF rm = {} \/ ~(CHOOSE r \in rm : TRUE).votingOpen
    THEN [timers |-> t, effectTimer |-> 0]
    ELSE [timers |-> [t EXCEPT ![code] = @ + 1], effectTimer |-> code]

\* Lines 329-333: the polling effect re-runs (room or loadRoom changed):
\* cleanup of the previous run, then a new interval while voting is open.
PollEffect(t, et, rm, code) ==
  LET cleared == ClearInterval(t, et) IN
  IF rm = {} \/ ~(CHOOSE r \in rm : TRUE).votingOpen
    THEN [timers |-> cleared, effectTimer |-> 0]
    ELSE [timers |-> [cleared EXCEPT ![code] = @ + 1], effectTimer |-> code]

\* Lines 324-326 under StrictMode (line 8): the initial-load effect calls
\* loadRoom once, or twice in a development build.
InitialLoads(c) ==
  {<<NewLoad(c, "none")>>, <<NewLoad(c, "none"), NewLoad(c, "none")>>}

\* A faulty variant: the route is rendered whatever the session holds.
LandingOpen(p, tok) == p

\* Lines 74-78: PrivateRoute sends a protected route to /login without a token.
Landing(p, tok) == IF p \in Protected /\ ~tok THEN "/login" ELSE p

IdleOp ==
  [phase |-> "idle", roomId |-> 0, code |-> 0, optionId |-> 0, text |-> <<>>,
   tied |-> {}, opts |-> {}, tie |-> FALSE, winner |-> 0, orphan |-> FALSE]

OpsInFlight == Cardinality({k \in Kinds : ops[k].phase # "idle"})

\* Lines 82-86, 136-140 and 190-196: the forms as their views mount, nothing
\* in flight.
FreshForms ==
  /\ authLoading = [k \in AuthForms |-> FALSE]
  /\ creating = FALSE
  /\ newRoomTitle = <<>>
  /\ forms = [k \in Forms |-> "idle"]
  /\ notice = NoNotice

\* Lines 286-298: the state of the Room view as it mounts, no timer and no
\* request of an operation.
FreshView ==
  /\ loading = TRUE
  /\ room = {}
  /\ options = {}
  /\ optionText = <<>>
  /\ hasVoted = FALSE
  /\ selectedOptionId = 0
  /\ voteCasting = FALSE
  /\ votingClosing = FALSE
  /\ tiedOptionIds = {}
  /\ tiebreaking = FALSE
  /\ finalOptionText = {}
  /\ timers = [c \in Codes |-> 0]
  /\ effectTimer = 0
  /\ ops = [k \in Kinds |-> IdleOp]
  /\ voteAcked = FALSE

\* The page is loaded: the token is the one of localStorage, if any (lines
\* 37-48).  A session restored from a stored token is followed in the room
\* the user created, where the placeholder email of line 46 matters.
Init ==
  /\ \E u \in Users :
       srv = [creatorId |-> u, phase |-> "collecting", final |-> 0, options |-> {},
              hasVoted |-> FALSE]
  /\ token \in BOOLEAN
  /\ token => srv.creatorId = Viewer
  /\ email = (IF token THEN You ELSE NoEmail)
  /\ \E p \in Paths : path = Landing(p, token)
  /\ FreshForms
  /\ mounted = (path = "/room")
  /\ roomCode \in Codes
  /\ FreshView
  /\ loads \in (IF mounted THEN InitialLoads(roomCode) ELSE {<<>>})


-----------------------------------------------------------------------------
(* RoomAPI handling a load, and the view receiving the response *)

\* The server answers GET /rooms/code/{code} with the room as it is now.
ServerHandleLoad(i) ==
  /\ i \in DOMAIN loads
  /\ loads[i].status = "pending"
  /\ loads' = [loads EXCEPT ![i].status = "ok", ![i].data = RoomData(loads[i].code)]
  /\ UNCHANGED <<srvVars, viewVars, pollVars, ops, histVars>>
  /\ AppStays

\* The loads still in flight once the i-th has been received; those issued
\* before it are superseded when its data was applied.
LoadsAfter(i, applied) ==
  RemoveAt([j \in DOMAIN loads |->
              IF applied /\ j < i THEN [loads[j] EXCEPT !.superseded = TRUE]
                                  ELSE loads[j]], i)

\* A faulty variant: the flag stays as it is when the awaited load ends.
FlagAfterLoadKept(flag, kind, awaitedBy) == flag

\* The finally block of the operation that awaited this loadRoom() call.
FlagAfterLoad(flag, kind, awaitedBy) == IF awaitedBy = kind THEN FALSE ELSE flag

OpsAfterLoad(awaitedBy) ==
  IF awaitedBy \in Kinds THEN [ops EXCEPT ![awaitedBy] = IdleOp] ELSE ops

\* The state that loadRoom writes.
View ==
  [loading |-> loading, room |-> room, options |-> options, hasVoted |-> hasVoted,
   finalOptionText |-> finalOptionText]

\* A faulty variant: the final decision is resolved in the options the view
\* held before the load.
LoadedFromStaleOptions(v, d) ==
  [loading |-> FALSE, room |-> {d.room}, options |-> d.options,
   hasVoted |-> d.hasVoted,
   finalOptionText |->
     ResolveFinalText([room |-> d.room, options |-> v.options, hasVoted |-> d.hasVoted])]

\* Lines 306-316: the view state v once the data d of a load is applied.
Loaded(v, d) ==
  [loading |-> FALSE, room |-> {d.room}, options |-> d.options,
   hasVoted |-> d.hasVoted, finalOptionText |-> ResolveFinalText(d)]

\* Lines 305-316 and 329-333: the continuation of loadRoom on success, and
\* the polling effect of the render that follows setRoom.
LoadRoomSuccess(i) ==
  LET l == loads[i]
      eff == PollEffect(timers, effectTimer, {l.data.room}, roomCode)
      v == Loaded(View, l.data)
  IN
  /\ i \in DOMAIN loads
  /\ l.status = "ok"
  /\ room' = v.room
  /\ options' = v.options
  /\ hasVoted' = v.hasVoted
  /\ finalOptionText' = v.finalOptionText
  /\ loading' = v.loading
  /\ timers' = eff.timers
  /\ effectTimer' = eff.effectTimer
  /\ loads' = LoadsAfter(i, TRUE)
  /\ ops' = OpsAfterLoad(l.awaitedBy)
  /\ voteCasting' = FlagAfterLoad(voteCasting, "vote", l.awaitedBy)
  /\ votingClosing' = FlagAfterLoad(votingClosing, "close", l.awaitedBy)
  /\ tiebreaking' = FlagAfterLoad(tiebreaking, "tiebreak", l.awaitedBy)
  /\ UNCHANGED <<srvVars, mounted, roomCode, optionText, selectedOptionId, tiedOptionIds, histVars>>
  /\ AppStays

\* Lines 317-320: the catch of loadRoom; the request or its response may be
\* lost at any time.
LoadRoomFailure(i) ==
  LET l == loads[i] IN
  /\ i \in DOMAIN loads
  /\ loading' = FALSE
  /\ loads' = LoadsAfter(i, FALSE)
  /\ ops' = OpsAfterLoad(l.awaitedBy)
  /\ voteCasting' = FlagAfterLoad(voteCasting, "vote", l.awaitedBy)
  /\ votingClosing' = FlagAfterLoad(votingClosing, "close", l.awaitedBy)
  /\ tiebreaking' = FlagAfterLoad(tiebreaking, "tiebreak", l.awaitedBy)
  /\ UNCHANGED <<srvVars, mounted, roomCode, room, options, optionText, hasVoted,
                 selectedOptionId, tiedOptionIds, finalOptionText, pollVars, histVars>>
  /\ AppStays

\* A faulty variant: the view re-fetches the room of its route whether an
\* interval is pending or not.
PollTickUnguarded(c) ==
  /\ mounted
  /\ c = roomCode
  /\ Len(loads) < MaxLoads
  /\ loads' = Append(loads, NewLoad(c, "none"))
  /\ UNCHANGED <<srvVars, viewVars, pollVars, ops, histVars>>
  /\ AppStays

\* Line 331: a tick of a pending interval calls the loadRoom of its closure.
PollTick(c) ==
  /\ timers[c] > 0
  /\ Len(loads) < MaxLoads
  /\ loads' = Append(loads, NewLoad(c, "none"))
  /\ UNCHANGED <<srvVars, viewVars, pollVars, ops, histVars>>
  /\ AppStays

-----------------------------------------------------------------------------
(* Navigation *)

\* The route parameter changes while the view stays mounted: loadRoom is
\* re-created (line 321), so both effects re-run (lines 324-333).
RoomReroute(c) ==
  LET eff == PollEffect(timers, effectTimer, room, c) IN
  /\ Len(loads) < MaxLoads
  /\ roomCode' = c
  /\ loads' = Append(loads, NewLoad(c, "none"))
  /\ timers' = eff.timers
  /\ effectTimer' = eff.effectTimer
  /\ UNCHANGED <<mounted, loading, room, options, optionText, hasVoted,
                 selectedOptionId, voteCasting, votingClosing, tiedOptionIds,
                 tiebreaking, finalOptionText, ops, histVars>>

\* The requests an unmounted view leaves behind: those the server has not
\* handled yet still reach it; every continuation acts on a dead component.
OrphanOps ==
  [k \in Kinds |->
     IF ops[k].phase = "sent" THEN [ops[k] EXCEPT !.orphan = TRUE] ELSE IdleOp]

\* The view unmounts: the effect's cleanup runs (line 332) and the
\* component's state is gone.
RoomTeardown ==
  /\ mounted' = FALSE
  /\ timers' = ClearInterval(timers, effectTimer)
  /\ effectTimer' = 0
  /\ loads' = <<>>
  /\ ops' = OrphanOps
  /\ loading' = TRUE
  /\ room' = {}
  /\ options' = {}
  /\ optionText' = <<>>
  /\ hasVoted' = FALSE
  /\ selectedOptionId' = 0
  /\ voteCasting' = FALSE
  /\ votingClosing' = FALSE
  /\ tiedOptionIds' = {}
  /\ tiebreaking' = FALSE
  /\ finalOptionText' = {}
  /\ voteAcked' = FALSE
  /\ UNCHANGED roomCode

\* The view mounts on /room/c with fresh state (lines 286-298) and the
\* initial-load effect runs (lines 324-326).
RoomSetup(c) ==
  /\ mounted' = TRUE
  /\ roomCode' = c
  /\ loads' \in InitialLoads(c)
  /\ UNCHANGED <<loading, room, options, optionText, hasVoted,
                 selectedOptionId, voteCasting, votingClosing, tiedOptionIds,
                 tiebreaking, finalOptionText, pollVars, ops, histVars>>

RoomStays == UNCHANGED <<viewVars, pollVars, loads, ops, histVars>>

\* The requests of the forms in flight.
FormsInFlight(fm) == Cardinality({k \in Forms : fm[k] # "idle"})

\* The requests of the forms fm once the route q is rendered: the view that
\* sent a request is gone when its route is left.
Orphaned(fm, q) ==
  [k \in Forms |-> IF fm[k] = "sent" /\ FormPath(k) # q THEN "orphan" ELSE fm[k]]

\* Lines 563-570: the route q (with the room code c) is rendered from now on.
\* The view of another route unmounts, and its state is gone; fm are the
\* requests of the forms.
Route(q, c, fm) ==
  /\ path' = q
  /\ authLoading' = [k \in AuthForms |->
                       IF FormPath(k) = q /\ path = q THEN authLoading[k] ELSE FALSE]
  /\ creating' = (IF q = "/" /\ path = "/" THEN creating ELSE FALSE)
  /\ newRoomTitle' = (IF q = "/" /\ path = "/" THEN newRoomTitle ELSE <<>>)
  /\ forms' = Orphaned(fm, q)
  /\ IF q = "/room"
       THEN IF mounted
              THEN IF c = roomCode THEN RoomStays ELSE RoomReroute(c)
              ELSE FormsInFlight(fm) < MaxOps /\ RoomSetup(c)
       ELSE IF mounted THEN RoomTeardown ELSE RoomStays

\* The user follows a link, goes back or forward, or a handler calls
\* navigate(): the route p is asked for, PrivateRoute decides (lines 74-78).
Navigate(p, c) ==
  /\ Route(Landing(p, token), c, forms)
  /\ notice' = NoNotice
  /\ UNCHANGED <<srvVars, authVars>>

\* From /room/roomCode to /room/c.
ChangeRoomCode(c) ==
  /\ mounted
  /\ c # roomCode
  /\ Navigate("/room", c)

\* From the room back to Home, the route that leads to a room.
Unmount ==
  /\ mounted
  /\ Navigate("/", roomCode)

\* From another route to /room/c.
Mount(c) ==
  /\ ~mounted
  /\ token
  /\ Navigate("/room", c)

\* Between the routes other than the room's.
GoTo(p) ==
  /\ ~mounted
  /\ p # "/room"
  /\ Landing(p, token) # path
  /\ Navigate(p, roomCode)

-----------------------------------------------------------------------------
(* AuthProvider, Login, Signup and Home *)

\* Lines 55-58 and 232: the Logout button of Home.
Logout ==
  /\ path = "/"
  /\ token' = FALSE
  /\ email' = NoEmail
  /\ Route(Landing("/", FALSE), roomCode, forms)
  /\ notice' = NoNotice
  /\ UNCHANGED srvVars

\* Lines 88-92 and 142-146: handleSubmit of Login (k = "login") and of Signup,
\* up to its await; the button is disabled while loading (lines 123, 177).
HandleSubmit(k) ==
  /\ path = FormPath(k)
  /\ ~authLoading[k]
  /\ forms[k] = "idle"
  /\ FormsInFlight(forms) < MaxOps
  /\ authLoading' = [authLoading EXCEPT ![k] = TRUE]
  /\ forms' = [forms EXCEPT ![k] = "sent"]
  /\ notice' = NoNotice
  /\ RoomStays
  /\ UNCHANGED <<srvVars, path, authVars, creating, newRoomTitle>>

\* Lines 93-95 and 147-149 (50-53): the credentials are accepted; login()
\* stores the session and navigate('/') renders Home.
HandleSubmitAck(k) ==
  /\ forms[k] # "idle"
  /\ token' = TRUE
  /\ email' = Viewer
  /\ Route("/", roomCode, [forms EXCEPT ![k] = "idle"])
  /\ notice' = NoNotice
  /\ UNCHANGED srvVars

\* Lines 96-99 and 150-153: the request failed.
HandleSubmitFails(k) ==
  /\ forms[k] # "idle"
  /\ forms' = [forms EXCEPT ![k] = "idle"]
  /\ authLoading' = IF forms[k] = "sent" THEN [authLoading EXCEPT ![k] = FALSE]
                                         ELSE authLoading
  /\ notice' = NoNotice
  /\ RoomStays
  /\ UNCHANGED <<srvVars, path, authVars, creating, newRoomTitle>>

\* Line 239: onChange of the room-title input.
TypeRoomTitle(t) ==
  /\ path = "/"
  /\ t # newRoomTitle
  /\ newRoomTitle' = t
  /\ notice' = NoNotice
  /\ RoomStays
  /\ UNCHANGED <<srvVars, path, authVars, authLoading, creating, forms>>

\* Lines 198-207: createRoom up to its await; an empty title after trimming
\* is rejected.  The button is disabled while creating (line 257).
CreateRoom ==
  /\ path = "/"
  /\ ~creating
  /\ \/ /\ Trim(newRoomTitle) = <<>>
        /\ notice' = TitleRequired
        /\ UNCHANGED <<creating, forms>>
     \/ /\ Trim(newRoomTitle) # <<>>
        /\ forms["create"] = "idle"
        /\ FormsInFlight(forms) < MaxOps
        /\ creating' = TRUE
        /\ forms' = [forms EXCEPT !["create"] = "sent"]
        /\ notice' = NoNotice
  /\ RoomStays
  /\ UNCHANGED <<srvVars, path, authVars, authLoading, newRoomTitle>>

\* Lines 208-209 and 213: POST /rooms answered with the code c of the room it
\* created; navigate() asks for /room/c.
CreateRoomAck(c) ==
  /\ forms["create"] # "idle"
  /\ Stored(c).creatorId = Viewer
  /\ Stored(c).phase = "collecting"
  /\ Stored(c).options = {}
  /\ Route(Landing("/room", token), c, [forms EXCEPT !["create"] = "idle"])
  /\ notice' = NoNotice
  /\ UNCHANGED <<srvVars, authVars>>

\* Lines 210-213: the request failed.
CreateRoomFails ==
  /\ forms["create"] # "idle"
  /\ forms' = [forms EXCEPT !["create"] = "idle"]
  /\ creating' = (IF forms["create"] = "sent" THEN FALSE ELSE creating)
  /\ notice' = NoNotice
  /\ RoomStays
  /\ UNCHANGED <<srvVars, path, authVars, authLoading, newRoomTitle>>

-----------------------------------------------------------------------------
(* Other participants acting on the server *)

OtherSubmitsOption(o) ==
  /\ srv.phase = "collecting"
  /\ o \notin srv.options
  /\ srv' = [srv EXCEPT !.options = @ \cup {o}]
  /\ UNCHANGED <<viewVars, pollVars, loads, ops, histVars>>
  /\ AppStays

\* The creator of the room, when that is not the viewer, opens its voting.
OtherOpensVoting ==
  /\ srv.creatorId # Viewer
  /\ srv.phase = "collecting"
  /\ srv.options # {}
  /\ srv' = [srv EXCEPT !.phase = "voting"]
  /\ UNCHANGED <<viewVars, pollVars, loads, ops, histVars>>
  /\ AppStays

\* ... closes it, with a tie or with a decision.
OtherClosesVoting ==
  /\ srv.creatorId # Viewer
  /\ srv.phase = "voting"
  /\ \/ /\ Cardinality(srv.options) >= 2
        /\ srv' = [srv EXCEPT !.phase = "tied"]
     \/ \E o \in srv.options :
          srv' = [srv EXCEPT !.phase = "decided", !.final = o]
  /\ UNCHANGED <<viewVars, pollVars, loads, ops, histVars>>
  /\ AppStays

\* ... resolves the tie.
OtherBreaksTie ==
  /\ srv.creatorId # Viewer
  /\ srv.phase = "tied"
  /\ \E o \in srv.options :
       srv' = [srv EXCEPT !.phase = "decided", !.final = o]
  /\ UNCHANGED <<viewVars, pollVars, loads, ops, histVars>>
  /\ AppStays

-----------------------------------------------------------------------------
(* What the render offers (lines 417-511) *)

\* Line 417-418: past "Loading room..." and "Room not found".
Rendered == mounted /\ ~loading /\ room # {}
TheRoom == CHOOSE r \in room : TRUE
\* Line 300.
isCreator == room # {} /\ TheRoom.creatorId = email
\* A faulty variant: the Submit Options block does not look at votingOpen.
SubmitOfferedWhileOpen == Rendered /\ ~hasVoted

\* Line 429: the Submit Options block.
SubmitOffered == Rendered /\ ~TheRoom.votingOpen /\ ~hasVoted
\* Line 451: the radio buttons.
RadioOffered == Rendered /\ TheRoom.votingOpen /\ ~hasVoted /\ ~voteCasting
\* A faulty variant: the Vote button does not look at votingOpen.
VoteOfferedWhileClosed == Rendered /\ ~hasVoted

\* Line 470: the Vote button.
VoteOffered == Rendered /\ TheRoom.votingOpen /\ ~hasVoted
\* Line 476: the Open Voting button.
OpenOffered == Rendered /\ isCreator /\ ~TheRoom.votingOpen /\ options # {}
\* A faulty variant: the Close Voting button does not look at isCreator.
CloseOfferedToAll == Rendered /\ TheRoom.votingOpen

\* Line 482: the Close Voting button.
CloseOffered == Rendered /\ isCreator /\ TheRoom.votingOpen
\* Line 488: the final decision banner.
FinalShown == Rendered /\ Truthy(finalOptionText)
\* Line 494: the tiebreaker prompt.
TiePromptVisible ==
  Rendered /\ isCreator /\ tiedOptionIds # {} /\ ~Truthy(finalOptionText)

\* A request of kind k can be sent: none of that kind is in flight, and
\* fewer than MaxOps requests of the view are.
CanSend(k) == ops[k].phase = "idle" /\ OpsInFlight < MaxOps

\* The request an operation sends, with what its closure holds: room._id,
\* the roomCode of its loadRoom, and its arguments.
SentOp(optionId, text, tied, opts) ==
  [IdleOp EXCEPT !.phase = "sent", !.roomId = TheRoom.id, !.code = roomCode,
                 !.optionId = optionId, !.text = text, !.tied = tied, !.opts = opts]

-----------------------------------------------------------------------------
(* User input *)

\* Line 435: onChange of the option-text input.
TypeOptionText(t) ==
  /\ SubmitOffered
  /\ t # optionText
  /\ optionText' = t
  /\ UNCHANGED <<srvVars, mounted, roomCode, loading, room, options, hasVoted,
                 selectedOptionId, voteCasting, votingClosing, tiedOptionIds,
                 tiebreaking, finalOptionText, pollVars, loads, ops, histVars>>
  /\ AppStays

\* Line 457: onChange of an option's radio button.
SelectOption(o) ==
  /\ RadioOffered
  /\ o \in options
  /\ o # selectedOptionId
  /\ selectedOptionId' = o
  /\ UNCHANGED <<srvVars, mounted, roomCode, loading, room, options, optionText,
                 hasVoted, voteCasting, votingClosing, tiedOptionIds,
                 tiebreaking, finalOptionText, pollVars, loads, ops, histVars>>
  /\ AppStays

-----------------------------------------------------------------------------
(* The click handlers, up to their await *)

\* A faulty variant: the text is sent without the check of line 337.
SubmitOptionUnchecked ==
  /\ SubmitOffered
  /\ CanSend("submit")
  /\ ops' = [ops EXCEPT !["submit"] = SentOp(0, Trim(optionText), {}, {})]
  /\ notice' = NoNotice
  /\ UNCHANGED <<srvVars, viewVars, pollVars, loads, histVars, path, authVars, formVars>>

\* Lines 336-339: empty text after trimming is rejected with no request.
SubmitOption ==
  /\ SubmitOffered
  /\ \/ /\ Trim(optionText) = <<>>
        /\ notice' = EnterOptionText
        /\ UNCHANGED ops
     \/ /\ Trim(optionText) # <<>>
        /\ CanSend("submit")
        /\ ops' = [ops EXCEPT !["submit"] = SentOp(0, Trim(optionText), {}, {})]
        /\ notice' = NoNotice
  /\ UNCHANGED <<srvVars, viewVars, pollVars, loads, histVars, path, authVars, formVars>>

\* Lines 349-352.
OpenVoting ==
  /\ OpenOffered
  /\ CanSend("open")
  /\ ops' = [ops EXCEPT !["open"] = SentOp(0, <<>>, {}, {})]
  /\ UNCHANGED <<srvVars, viewVars, pollVars, loads, histVars>>
  /\ AppStays

\* A faulty variant: has-voted is set optimistically, before the request.
VoteOptimistic ==
  /\ VoteOffered
  /\ ~voteCasting
  /\ selectedOptionId # 0
  /\ CanSend("vote")
  /\ voteCasting' = TRUE
  /\ hasVoted' = TRUE
  /\ ops' = [ops EXCEPT !["vote"] = SentOp(selectedOptionId, <<>>, {}, {})]
  /\ UNCHANGED <<srvVars, mounted, roomCode, loading, room, options, optionText,
                 selectedOptionId, votingClosing, tiedOptionIds,
                 tiebreaking, finalOptionText, pollVars, loads, histVars>>
  /\ AppStays

\* Lines 361-365; the button is disabled while voteCasting or with no
\* option selected (line 471), so the check of line 362 never rejects.
Vote ==
  /\ VoteOffered
  /\ ~voteCasting
  /\ selectedOptionId # 0
  /\ CanSend("vote")
  /\ voteCasting' = TRUE
  /\ ops' = [ops EXCEPT !["vote"] = SentOp(selectedOptionId, <<>>, {}, {})]
  /\ UNCHANGED <<srvVars, mounted, roomCode, loading, room, options, optionText,
                 hasVoted, selectedOptionId, votingClosing, tiedOptionIds,
                 tiebreaking, finalOptionText, pollVars, loads, histVars>>
  /\ AppStays

\* Lines 377-381; the button is disabled while votingClosing (line 483).
CloseVoting ==
  /\ CloseOffered
  /\ ~votingClosing
  /\ CanSend("close")
  /\ votingClosing' = TRUE
  /\ ops' = [ops EXCEPT !["close"] = SentOp(0, <<>>, {}, {})]
  /\ UNCHANGED <<srvVars, mounted, roomCode, loading, room, options, optionText,
                 hasVoted, selectedOptionId, voteCasting, tiedOptionIds,
                 tiebreaking, finalOptionText, pollVars, loads, histVars>>
  /\ AppStays

\* Lines 398-403; the buttons are disabled while tiebreaking (line 499).
\* The closure holds the tiedOptionIds and the options of this render.
TriggerTiebreaker ==
  /\ TiePromptVisible
  /\ ~tiebreaking
  /\ CanSend("tiebreak")
  /\ tiebreaking' = TRUE
  /\ ops' = [ops EXCEPT !["tiebreak"] = SentOp(0, <<>>, tiedOptionIds, options)]
  /\ UNCHANGED <<srvVars, mounted, roomCode, loading, room, options, optionText,
                 hasVoted, selectedOptionId, voteCasting, votingClosing,
                 tiedOptionIds, finalOptionText, pollVars, loads, histVars>>
  /\ AppStays

-----------------------------------------------------------------------------
(* RoomAPI handling the request of an operation *)

\* The operation once the server has answered; an orphan has no one waiting.
Answered(op, tie, tied, winner) ==
  IF op.orphan THEN IdleOp
  ELSE [op EXCEPT !.phase = "ok", !.tie = tie, !.tied = tied, !.winner = winner]

\* POST /rooms/{id}/options: only while options are collected.
ServerAddOption ==
  LET op == ops["submit"] IN
  /\ op.phase = "sent"
  /\ IsLive(op.roomId)
  /\ Stored(op.roomId).phase = "collecting"
  /\ \E o \in OptionIds \ Stored(op.roomId).options :
       /\ OptText(o) = op.text
       /\ srv' = [srv EXCEPT !.options = @ \cup {o}]
  /\ ops' = [ops EXCEPT !["submit"] = Answered(op, FALSE, {}, 0)]
  /\ UNCHANGED <<viewVars, pollVars, loads, histVars>>
  /\ AppStays

\* POST /rooms/{id}/open-voting.
ServerOpenVoting ==
  LET op == ops["open"] IN
  /\ op.phase = "sent"
  /\ IsLive(op.roomId)
  /\ Stored(op.roomId).phase = "collecting"
  /\ Stored(op.roomId).options # {}
  /\ srv' = [srv EXCEPT !.phase = "voting"]
  /\ ops' = [ops EXCEPT !["open"] = Answered(op, FALSE, {}, 0)]
  /\ UNCHANGED <<viewVars, pollVars, loads, histVars>>
  /\ AppStays

\* POST /rooms/{id}/vote: one vote per participant.
ServerVote ==
  LET op == ops["vote"] IN
  /\ op.phase = "sent"
  /\ IsLive(op.roomId)
  /\ Stored(op.roomId).phase = "voting"
  /\ ~Stored(op.roomId).hasVoted
  /\ op.optionId \in Stored(op.roomId).options
  /\ srv' = [srv EXCEPT !.hasVoted = TRUE]
  /\ ops' = [ops EXCEPT !["vote"] = Answered(op, FALSE, {}, 0)]
  /\ UNCHANGED <<viewVars, pollVars, loads, histVars>>
  /\ AppStays

\* POST /rooms/{id}/close-voting -> { tie, tiedOptionIds? }, refused unless
\* the voting is open: the tally (the
\* other participants' votes) decides between a tie and a decision.
ServerCloseVoting ==
  LET op == ops["close"] IN
  /\ op.phase = "sent"
  /\ IsLive(op.roomId)
  /\ Stored(op.roomId).phase = "voting"
  /\ \/ /\ Cardinality(Stored(op.roomId).options) >= 2
        /\ srv' = [srv EXCEPT !.phase = "tied"]
        /\ ops' = [ops EXCEPT !["close"] = Answered(op, TRUE, Stored(op.roomId).options, 0)]
     \/ \E o \in Stored(op.roomId).options :
          /\ srv' = [srv EXCEPT !.phase = "decided", !.final = o]
          /\ ops' = [ops EXCEPT !["close"] = Answered(op, FALSE, {}, 0)]
  /\ UNCHANGED <<viewVars, pollVars, loads, histVars>>
  /\ AppStays

\* POST /rooms/{id}/tiebreaker -> { winnerOptionId }: one of the tied options.
ServerTiebreaker ==
  LET op == ops["tiebreak"] IN
  /\ op.phase = "sent"
  /\ IsLive(op.roomId)
  /\ Stored(op.roomId).phase = "tied"
  /\ \E w \in op.tied \cap Stored(op.roomId).options :
       /\ srv' = [srv EXCEPT !.phase = "decided", !.final = w]
       /\ ops' = [ops EXCEPT !["tiebreak"] = Answered(op, FALSE, op.tied, w)]
  /\ UNCHANGED <<viewVars, pollVars, loads, histVars>>
  /\ AppStays

-----------------------------------------------------------------------------
(* The continuations of the operations *)

\* A faulty variant: the failure path clears the option-text input too.
RequestFailsClearsInput(k) ==
  /\ ops[k].phase = "sent"
  /\ ops' = [ops EXCEPT ![k] = IdleOp]
  /\ voteCasting' = IF k = "vote" /\ ~ops[k].orphan THEN FALSE ELSE voteCasting
  /\ votingClosing' = IF k = "close" /\ ~ops[k].orphan THEN FALSE ELSE votingClosing
  /\ tiebreaking' = IF k = "tiebreak" /\ ~ops[k].orphan THEN FALSE ELSE tiebreaking
  /\ optionText' = <<>>
  /\ UNCHANGED <<srvVars, mounted, roomCode, loading, room, options,
                 hasVoted, selectedOptionId, tiedOptionIds, finalOptionText,
                 pollVars, loads, histVars>>
  /\ AppStays

\* The catch and finally blocks: the request failed (a non-2xx answer, or
\* no answer), nothing but the in-progress flag changes.
RequestFails(k) ==
  /\ ops[k].phase = "sent"
  /\ ops' = [ops EXCEPT ![k] = IdleOp]
  /\ voteCasting' = IF k = "vote" /\ ~ops[k].orphan THEN FALSE ELSE voteCasting
  /\ votingClosing' = IF k = "close" /\ ~ops[k].orphan THEN FALSE ELSE votingClosing
  /\ tiebreaking' = IF k = "tiebreak" /\ ~ops[k].orphan THEN FALSE ELSE tiebreaking
  /\ UNCHANGED <<srvVars, mounted, roomCode, loading, room, options, optionText,
                 hasVoted, selectedOptionId, tiedOptionIds, finalOptionText,
                 pollVars, loads, histVars>>
  /\ AppStays

\* The operation of kind k awaits the loadRoom() it has just called.
AwaitLoad(k) ==
  /\ Len(loads) < MaxLoads
  /\ loads' = Append(loads, NewLoad(ops[k].code, k))
  /\ ops' = [ops EXCEPT ![k].phase = "awaitLoad"]

\* Lines 340-342.
SubmitOptionAck ==
  /\ ops["submit"].phase = "ok"
  /\ optionText' = <<>>
  /\ AwaitLoad("submit")
  /\ UNCHANGED <<srvVars, mounted, roomCode, loading, room, options, hasVoted,
                 selectedOptionId, voteCasting, votingClosing, tiedOptionIds,
                 tiebreaking, finalOptionText, pollVars, histVars>>
  /\ AppStays

\* Lines 353-354.
OpenVotingAck ==
  /\ ops["open"].phase = "ok"
  /\ AwaitLoad("open")
  /\ UNCHANGED <<srvVars, viewVars, pollVars, histVars>>
  /\ AppStays

\* Lines 366-368.
VoteAck ==
  /\ ops["vote"].phase = "ok"
  /\ hasVoted' = TRUE
  /\ voteAcked' = TRUE
  /\ AwaitLoad("vote")
  /\ UNCHANGED <<srvVars, mounted, roomCode, loading, room, options, optionText,
                 selectedOptionId, voteCasting, votingClosing, tiedOptionIds,
                 tiebreaking, finalOptionText, pollVars>>
  /\ AppStays

\* A faulty variant: on a tie the view also marks its room closed, and the
\* polling effect re-runs.
CloseVotingAckClosesLocally ==
  LET op == ops["close"]
      closed == {[r EXCEPT !.votingOpen = FALSE] : r \in room}
      eff == PollEffect(timers, effectTimer, closed, roomCode)
  IN
  /\ op.phase = "ok"
  /\ \/ /\ op.tie
        /\ tiedOptionIds' = op.tied
        /\ votingClosing' = FALSE
        /\ ops' = [ops EXCEPT !["close"] = IdleOp]
        /\ room' = closed
        /\ timers' = eff.timers
        /\ effectTimer' = eff.effectTimer
        /\ UNCHANGED loads
     \/ /\ ~op.tie
        /\ AwaitLoad("close")
        /\ UNCHANGED <<tiedOptionIds, votingClosing, room, pollVars>>
  /\ UNCHANGED <<srvVars, mounted, roomCode, loading, options, optionText,
                 hasVoted, selectedOptionId, voteCasting, tiebreaking,
                 finalOptionText, histVars>>
  /\ AppStays

\* Lines 382-389 and 393: a tie stores the tied ids and loads nothing; a
\* decision resynchronizes.
CloseVotingAck ==
  LET op == ops["close"] IN
  /\ op.phase = "ok"
  /\ \/ /\ op.tie
        /\ tiedOptionIds' = op.tied
        /\ votingClosing' = FALSE
        /\ ops' = [ops EXCEPT !["close"] = IdleOp]
        /\ UNCHANGED loads
     \/ /\ ~op.tie
        /\ AwaitLoad("close")
        /\ UNCHANGED <<tiedOptionIds, votingClosing, histVars>>
  /\ UNCHANGED <<srvVars, mounted, roomCode, loading, room, options, optionText,
                 hasVoted, selectedOptionId, voteCasting, tiebreaking,
                 finalOptionText, pollVars, histVars>>
  /\ AppStays

\* Lines 404-405: the winner's text, looked up in the options of the closure.
WinnerText(op) ==
  IF op.winner \in op.opts /\ OptText(op.winner) # <<>>
    THEN OptText(op.winner)
    ELSE Unknown

\* Lines 404-408.
TriggerTiebreakerAck ==
  LET op == ops["tiebreak"] IN
  /\ op.phase = "ok"
  /\ finalOptionText' = {WinnerText(op)}
  /\ tiedOptionIds' = {}
  /\ AwaitLoad("tiebreak")
  /\ UNCHANGED <<srvVars, mounted, roomCode, loading, room, options, optionText,
                 hasVoted, selectedOptionId, voteCasting, votingClosing,
                 tiebreaking, pollVars, histVars>>
  /\ AppStays

Next ==
  \/ \E i \in 1..MaxLoads + 1 : ServerHandleLoad(i)
  \/ \E i \in 1..MaxLoads + 1 : LoadRoomSuccess(i)
  \/ \E i \in 1..MaxLoads + 1 : LoadRoomFailure(i)
  \/ \E c \in Codes : PollTick(c)
  \/ \E c \in Codes : ChangeRoomCode(c)
  \/ Unmount
  \/ \E c \in Codes : Mount(c)
  \/ \E p \in Paths : GoTo(p)
  \/ Logout
  \/ \E k \in AuthForms : HandleSubmit(k)
  \/ \E k \in AuthForms : HandleSubmitAck(k)
  \/ \E k \in AuthForms : HandleSubmitFails(k)
  \/ \E t \in Inputs : TypeRoomTitle(t)
  \/ CreateRoom
  \/ \E c \in Codes : CreateRoomAck(c)
  \/ CreateRoomFails
  \/ \E t \in Inputs : TypeOptionText(t)
  \/ \E o \in OptionIds \cup PastOptions : SelectOption(o)
  \/ SubmitOption
  \/ OpenVoting
  \/ Vote
  \/ CloseVoting
  \/ TriggerTiebreaker
  \/ ServerAddOption
  \/ ServerOpenVoting
  \/ ServerVote
  \/ ServerCloseVoting
  \/ ServerTiebreaker
  \/ \E k \in Kinds : RequestFails(k)
  \/ SubmitOptionAck
  \/ OpenVotingAck
  \/ VoteAck
  \/ CloseVotingAck
  \/ TriggerTiebreakerAck
  \/ \E o \in OptionIds : OtherSubmitsOption(o)
  \/ OtherOpensVoting
  \/ OtherClosesVoting
  \/ OtherBreaksTie

Spec == Init /\ [][Next]_vars

-----------------------------------------------------------------------------
(* The polling loop, with its scheduling *)

\* A user who has logged in opens /room/c.
PollInit ==
  /\ \E u \in Users :
       srv = [creatorId |-> u, phase |-> "collecting", final |-> 0, options |-> {},
              hasVoted |-> FALSE]
  /\ token = TRUE
  /\ email = Viewer
  /\ path = "/room"
  /\ FreshForms
  /\ mounted = TRUE
  /\ roomCode \in Codes
  /\ FreshView
  /\ loads \in InitialLoads(roomCode)

\* The steps of Next that change room.votingOpen, the timers or the loads:
\* the loads and what triggers them, the route, the creator's operations,
\* and the other users.  Submitting an option and voting are left out.
PollNext ==
  \/ \E i \in 1..MaxLoads + 1 : ServerHandleLoad(i)
  \/ \E i \in 1..MaxLoads + 1 : LoadRoomSuccess(i)
  \/ \E i \in 1..MaxLoads + 1 : LoadRoomFailure(i)
  \/ \E c \in Codes : PollTick(c)
  \/ \E c \in Codes : ChangeRoomCode(c)
  \/ Unmount
  \/ \E c \in Codes : Mount(c)
  \/ OpenVoting
  \/ CloseVoting
  \/ TriggerTiebreaker
  \/ ServerOpenVoting
  \/ ServerCloseVoting
  \/ ServerTiebreaker
  \/ \E k \in Kinds : RequestFails(k)
  \/ OpenVotingAck
  \/ CloseVotingAck
  \/ TriggerTiebreakerAck
  \/ \E o \in OptionIds : OtherSubmitsOption(o)
  \/ OtherOpensVoting
  \/ OtherClosesVoting
  \/ OtherBreaksTie

\* Line 331: a pending interval ticks again and again.  Every request ends,
\* with a response or with an error; the server answers requests, and
\* responses arrive.
PollFairness ==
  /\ SF_vars(\E c \in Codes : PollTick(c))
  /\ \A i \in 1..MaxLoads : WF_vars(LoadRoomSuccess(i) \/ LoadRoomFailure(i))
  /\ SF_vars(\E i \in 1..MaxLoads : ServerHandleLoad(i))
  /\ SF_vars(\E i \in 1..MaxLoads : LoadRoomSuccess(i))

PollSpec == PollInit /\ [][PollNext]_vars /\ PollFairness

-----------------------------------------------------------------------------
(* The claims *)

\* C1: the response of a load is never applied to room, options, hasVoted
\* and finalOptionText once the response of a load issued after it has been
\* applied.
C1_LoadsSerialized ==
  [][\A i \in DOMAIN loads : LoadRoomSuccess(i) => ~loads[i].superseded]_vars

\* C2: once closeVoting has been acknowledged (tie or decision), or a load
\* has returned the room with votingOpen = false, no poll timer is pending.
C2_NoTimerOnceClosed ==
  [][(CloseVotingAck
        \/ \E i \in DOMAIN loads :
             LoadRoomSuccess(i) /\ ~loads[i].data.room.votingOpen)
       => TimerCount' = 0]_vars

\* The view holds the tie of the room it is on, and the server has answered
\* no tiebreaker request of the view.
TiePending ==
  /\ tiedOptionIds # {}
  /\ IsLive(roomCode)
  /\ ops["tiebreak"].phase \in {"idle", "sent"}

\* C3: after closeVoting returned a tie, finalOptionText stays null until a
\* triggerTiebreaker call succeeds (tiedOptionIds is set by that answer of
\* closeVoting alone, and emptied by the success of triggerTiebreaker alone).
C3_FinalTextNullWhileTiePending == TiePending => finalOptionText = {}

\* C4: whenever the loaded room has a final decision, the tiebreaker prompt
\* is not shown.
C4_NoTiePromptOnceDecided ==
  (room # {} /\ TheRoom.finalDecision # 0) => ~TiePromptVisible

\* C5: no poll timer is pending once the view has unmounted, and none that
\* loads another room code than the current one (so no tick loads the
\* previous code).
C5_TimerCancelled ==
  /\ ~mounted => TimerCount = 0
  /\ \A c \in Codes : c # roomCode => timers[c] = 0

\* The room code changed while polling: the timer is one of the new code.
C5_Witness ==
  mounted /\ room # {} /\ TheRoom.id # roomCode /\ timers[roomCode] = 1

\* C6: a mounted Room view has at most one pending poll timer.
C6_AtMostOneTimer == TimerCount <= 1

\* Polling after the effect has re-run: a vote was cast and polls are in flight.
C6_Witness == TimerCount = 1 /\ hasVoted /\ Len(loads) >= 2

\* The load that triggerTiebreaker awaited is received.
TiebreakerCompletes(i) ==
  /\ i \in DOMAIN loads
  /\ loads[i].awaitedBy = "tiebreak"
  /\ LoadRoomSuccess(i) \/ LoadRoomFailure(i)

C8_ClosedOffersSubmit ==
  (Rendered /\ ~TheRoom.votingOpen) => (SubmitOffered /\ ~VoteOffered)

\* C8, amended: for every loaded room with votingOpen = false, castVote is
\* not offered, and submitOption is offered exactly when hasVoted is false.
C8_ClosedOffersSubmitUnlessVoted ==
  (Rendered /\ ~TheRoom.votingOpen)
    => (~VoteOffered /\ (SubmitOffered <=> ~hasVoted))

\* A closed, decided room in which the viewer has voted.
C8_Witness ==
  Rendered /\ ~TheRoom.votingOpen /\ hasVoted /\ TheRoom.finalDecision # 0

\* The step sends an add-option request.
SendsAddOption == ops["submit"].phase = "idle" /\ ops'["submit"].phase = "sent"

\* C9: no add-option request is sent while the voting of the room is open
\* on the server.
C9_NoSubmitWhileOpen ==
  [][SendsAddOption => Stored(TheRoom.id).phase # "voting"]_vars

\* C9, amended: no add-option request is sent while the room the view holds
\* has votingOpen = true (the server may have opened voting since).
C9_NoSubmitWhileLocallyOpen ==
  [][SendsAddOption => (room # {} /\ ~TheRoom.votingOpen)]_vars

\* An add-option request of the view is in flight for the room whose voting
\* the server has opened.
C9_Witness ==
  /\ ops["submit"].phase = "sent"
  /\ ~ops["submit"].orphan
  /\ Stored(ops["submit"].roomId).phase = "voting"

\* Line 471: the Vote button is rendered and enabled.
VoteEnabled == VoteOffered /\ ~voteCasting /\ selectedOptionId # 0

\* C10: once a vote of the view has been acknowledged, the view does not
\* offer the vote control again (a click on it sends another vote request).
C10_NoVoteAfterAck == voteAcked => ~VoteEnabled

\* C11: castVote changes hasVoted neither when it sends the vote request nor
\* while the server handles it nor when the request fails; it sets hasVoted
\* to true when the acknowledgement is received.
C11_HasVotedOnlyAfterAck ==
  [][/\ (Vote \/ ServerVote \/ RequestFails("vote")) => hasVoted' = hasVoted
     /\ VoteAck => hasVoted']_vars

\* The server has recorded the vote; the view has not received the answer.
C11_Witness ==
  ops["vote"].phase = "ok" /\ ~ops["vote"].orphan /\ voteCasting /\ ~hasVoted

\* C12: after closeVoting returned without a tie, and after a load has
\* revealed a room with a final decision, tiedOptionIds is empty.
C12_TieStateCleared ==
  [][/\ (CloseVotingAck /\ ~ops["close"].tie) => tiedOptionIds' = {}
     /\ \A i \in DOMAIN loads :
          (LoadRoomSuccess(i) /\ loads[i].data.room.finalDecision # 0)
            => tiedOptionIds' = {}]_vars

\* C13: when the request of an operation fails, room, options, hasVoted,
\* tiedOptionIds, finalOptionText and the option-text input keep their
\* values, the in-progress flag of the operation is reset, and no load is
\* issued.
C13_FailureLeavesState ==
  [][\A k \in Kinds :
       RequestFails(k) =>
         /\ UNCHANGED <<room, options, hasVoted, tiedOptionIds, finalOptionText,
                        optionText, loads>>
         /\ (k = "vote" /\ mounted) => ~voteCasting'
         /\ (k = "close" /\ mounted) => ~votingClosing'
         /\ (k = "tiebreak" /\ mounted) => ~tiebreaking']_vars

\* The add-option request of the text typed into the input is in flight.
C13_Witness ==
  /\ ops["submit"].phase = "sent"
  /\ ~ops["submit"].orphan
  /\ optionText # <<>>
  /\ options # {}

\* C14: when a load fails the view is left in the "not found / unavailable"
\* state (not loading, no room), also when an earlier load had populated
\* the room.
C14_LoadFailureNotFound ==
  [][\A i \in DOMAIN loads :
       LoadRoomFailure(i) => (~loading' /\ room' = {})]_vars

\* The step sends a vote request.
SendsVote == ops["vote"].phase = "idle" /\ ops'["vote"].phase = "sent"

\* C15: submitOption with a text that is empty after trimming raises the
\* validation error, sends no request and leaves room, options, hasVoted and
\* the in-progress flags unchanged; no add-option request is sent for such a
\* text, and no vote request is sent with no option selected.
C15_LocalRejection ==
  [][/\ (SubmitOption /\ Trim(optionText) = <<>>) =>
          /\ notice' = EnterOptionText
          /\ UNCHANGED <<ops, loads, room, options, hasVoted, loading,
                         voteCasting, votingClosing, tiebreaking>>
     /\ SendsAddOption => Trim(optionText) # <<>>
     /\ SendsVote => selectedOptionId # 0]_vars

\* Add Option was clicked on an empty text while a load was in flight.
C15_Witness == notice = EnterOptionText /\ Rendered /\ loads # <<>>

\* C16: from any state of the view, applying the data of a load twice leaves
\* the same room, options, hasVoted and finalOptionText (and so the same
\* isCreator and tie-prompt visibility, which are derived from them) as
\* applying it once.
C16_LoadIdempotent ==
  \A i \in DOMAIN loads :
    loads[i].status = "ok" =>
      Loaded(Loaded(View, loads[i].data), loads[i].data) = Loaded(View, loads[i].data)

\* The answer of a load that reveals a final decision is about to be
\* applied to a view that holds another room's options.
C16_Witness ==
  \E i \in DOMAIN loads :
    /\ loads[i].status = "ok"
    /\ loads[i].data.room.finalDecision # 0
    /\ room # {}
    /\ options # loads[i].data.options
    /\ Loaded(View, loads[i].data) # View

\* C17: whenever the room the view holds has a creatorId other than the
\* email of the session, the view offers neither Open Voting, nor Close
\* Voting, nor the tiebreaker prompt.
C17_NonCreatorNoControls ==
  (room # {} /\ TheRoom.creatorId # email) =>
    (~OpenOffered /\ ~CloseOffered /\ ~TiePromptVisible)

\* A viewer who is not the creator sees a room whose voting is open.
C17_Witness ==
  /\ Rendered
  /\ TheRoom.creatorId # email
  /\ TheRoom.votingOpen
  /\ options # {}

\* The in-progress flag of the operations that have one.
InProgress(k) ==
  CASE k = "vote" -> voteCasting
    [] k = "close" -> votingClosing
    [] k = "tiebreak" -> tiebreaking

\* The operation of kind k ends in this step.
Completes(k) == ops[k].phase # "idle" /\ ops'[k].phase = "idle"

\* The form request k ends in this step.
FormCompletes(k) == forms[k] # "idle" /\ forms'[k] = "idle"

\* A load of the view ends in this step: its continuation (lines 305-320)
\* has run in a view that stays mounted.
LoadCompletes == mounted /\ mounted' /\ Len(loads') < Len(loads)

\* C19: when vote, closeVoting or triggerTiebreaker ends, by success or by
\* failure, voteCasting, votingClosing or tiebreaking is false; when the
\* request of Login, Signup or createRoom ends, loading or creating is false;
\* and when a load of the Room view ends either way, its loading is false.
C19_FlagsCleared ==
  [][/\ \A k \in {"vote", "close", "tiebreak"} : Completes(k) => ~InProgress(k)'
     /\ \A k \in AuthForms : FormCompletes(k) => ~authLoading'[k]
     /\ FormCompletes("create") => ~creating'
     /\ LoadCompletes => ~loading']_vars

\* The vote was acknowledged and its operation has ended, in a view that is
\* still mounted.
C19_Witness ==
  /\ mounted
  /\ voteAcked
  /\ ops["vote"].phase = "idle"
  /\ ~voteCasting
  /\ ~loading

\* C20: Home, PastDecisions and Room are rendered only while the session
\* holds a token; a protected path asked for without a token, and logout,
\* end on the login view.
C20_AuthenticatedOnly ==
  /\ []((path \in Protected \/ mounted) => token)
  /\ [][/\ Logout => (path' = "/login" /\ ~mounted')
        /\ \A p \in Protected : (GoTo(p) /\ ~token) => path' = "/login"]_vars

\* After a logout: the login view without a token, while a request that the
\* Room view had sent is still in flight.
C20_Witness ==
  /\ ~token
  /\ path = "/login"
  /\ ops["submit"].phase = "sent"

\* The view is mounted and the room it holds has its voting open.
PollingDue == mounted /\ room # {} /\ TheRoom.votingOpen

\* At the server, the voting of the room of the current route is not open.
ServerClosed == ~RoomData(roomCode).room.votingOpen

\* C18: if the view stays mounted with room.votingOpen true, the poll timer
\* issues a load again and again; and if the voting of the room stays closed
\* at the server while the view stays mounted, the view ends up with
\* room.votingOpen false and no pending timer.
C18_PollingLive ==
  /\ <>[]PollingDue => []<><<\E c \in Codes : PollTick(c)>>_vars
  /\ <>[](mounted /\ ServerClosed) => <>[](~PollingDue /\ TimerCount = 0)

\* The view polls a room whose voting the server has closed: a load of the
\* timer is in flight.
C18_Witness ==
  /\ PollingDue
  /\ TheRoom.id = roomCode
  /\ ServerClosed
  /\ TimerCount = 1
  /\ Len(loads) = MaxLoads

\* C21: a poll timer is pending only if the view is mounted and holds a room
\* with votingOpen true; the acknowledgement of closeVoting with a tie leaves
\* the room and the timer as they are, and in a view that stays mounted the
\* last timer goes only when a load applies a room with votingOpen false.
C21_TimerOnlyWhileLocallyOpen ==
  /\ [](TimerCount > 0 => PollingDue)
  /\ [][/\ (ops["close"].phase = "ok" /\ ops["close"].tie /\ CloseVotingAck)
            => UNCHANGED <<room, timers, effectTimer, loads>>
        /\ (TimerCount > 0 /\ TimerCount' = 0 /\ mounted')
            => (LoadCompletes /\ room' # {} /\ ~TheRoom'.votingOpen)]_vars

\* closeVoting was acknowledged with a tie: the view holds the tied ids, its
\* room still has votingOpen true and the timer is pending.
C21_Witness ==
  /\ PollingDue
  /\ TimerCount = 1
  /\ tiedOptionIds # {}
  /\ ops["close"].phase = "idle"
  /\ srv.phase = "tied"

\* A loadRoom() call is issued in this step.
LoadIssued == Len(loads') > Len(loads)

\* An operation calls the loadRoom() it awaits in this step.
OperationLoads == \E k \in Kinds : ops[k].phase = "ok" /\ ops'[k].phase = "awaitLoad"

\* The view holds no open room, and no load or request of it is in flight.
Quiet == mounted /\ ~PollingDue /\ loads = <<>> /\ OpsInFlight = 0

\* C22: while the view holds no room or a room with votingOpen false, a load
\* is issued only as the view mounts, as the room code changes, or by an
\* operation after its request was acknowledged; and with nothing in flight
\* the room the view holds changes only as the view unmounts.
C22_NoRefetchWhileClosed ==
  [][/\ (LoadIssued /\ ~PollingDue)
         => (~mounted \/ roomCode' # roomCode \/ OperationLoads)
     /\ Quiet => (room' = room \/ ~mounted')]_vars

\* The voting was opened at the server; the view still holds the room with
\* votingOpen false, and nothing is in flight or pending.
C22_Witness ==
  /\ Quiet
  /\ Rendered
  /\ TheRoom.id = roomCode
  /\ IsLive(roomCode)
  /\ srv.phase = "voting"
  /\ TimerCount = 0

=============================================================================
